---- MODULE Spec2Model ----
(***************************************************************************)
(* Model of pytorch_transformers/tokenization_roberta.py: the fairseq      *)
(* Dictionary (symbols, count, indices) and the RobertaTokenizer that      *)
(* bridges GPT-2 merge-space ids and dictionary-space ids.                 *)
(*                                                                         *)
(* A Python string is a sequence of one-character strings, so that         *)
(* str(), int(), ' '.join, split and rfind are computed, not assumed.      *)
(* A text handed to encode is given by the merge-space ids the GPT-2       *)
(* tokenizer yields for it (the GPT-2 tokenizer is an external module).    *)
(***************************************************************************)
EXTENDS Integers, Sequences, FiniteSets

VARIABLES symbols, count, indices, call, args, ret, assigned, stale, sums

vars == <<symbols, count, indices, call, args, ret, assigned, stale, sums>>

\* ---------------------------------------------------------------- bounds

\* No dictionary grows beyond MaxSymbols entries.
MaxSymbols == 6

\* No count grows beyond MaxCount; the counts of the specials, which every
\* encode call increments, may reach MaxMarkerCount.
MaxCount == 2

MaxMarkerCount == 6

\* A dictionary file holds at most MaxLines lines.
MaxLines == 2

\* encode takes at most MaxExtra additional texts.
MaxExtra == 2

\* decode is handed at most MaxIds ids.
MaxIds == 6

\* ------------------------------------------------------- Python strings

SP == " "

Digits == <<"0", "1", "2", "3", "4", "5", "6", "7", "8", "9">>

RECURSIVE StrNat(_)
StrNat(n) ==
    IF n < 10 THEN <<Digits[n + 1]>>
    ELSE StrNat(n \div 10) \o <<Digits[(n % 10) + 1]>>

\* str(n) of an int
Str(n) == IF n < 0 THEN <<"-">> \o StrNat(0 - n) ELSE StrNat(n)

RECURSIVE Join(_, _)
\* sep.join(strs)
Join(strs, sep) ==
    IF Len(strs) = 0 THEN <<>>
    ELSE IF Len(strs) = 1 THEN strs[1]
    ELSE strs[1] \o sep \o Join(Tail(strs), sep)

RECURSIVE Strip(_)
\* s.strip(), the only whitespace of the model being the space
Strip(s) ==
    IF Len(s) = 0 THEN s
    ELSE IF s[1] = SP THEN Strip(Tail(s))
    ELSE IF s[Len(s)] = SP THEN Strip(SubSeq(s, 1, Len(s) - 1))
    ELSE s

IsDigit(c) == \E i \in 1..10 : Digits[i] = c

DigitVal(c) == (CHOOSE i \in 1..10 : Digits[i] = c) - 1

RECURSIVE NatVal(_)
NatVal(s) ==
    IF Len(s) = 0 THEN 0
    ELSE 10 * NatVal(SubSeq(s, 1, Len(s) - 1)) + DigitVal(s[Len(s)])

Unsigned(t) == IF Len(t) > 0 /\ t[1] \in {"-", "+"} THEN Tail(t) ELSE t

\* whether int(s) returns: surrounding whitespace, one sign, then digits
IsInt(s) ==
    LET u == Unsigned(Strip(s))
    IN  Len(u) > 0 /\ \A i \in 1..Len(u) : IsDigit(u[i])

\* int(s) where it returns
IntVal(s) ==
    LET t == Strip(s)
    IN  IF Len(t) > 0 /\ t[1] = "-" THEN 0 - NatVal(Tail(t)) ELSE NatVal(Unsigned(t))

RECURSIVE SplitWs(_, _)
\* the words of s after the current word cur: runs of spaces separate, no empty word
SplitWs(s, cur) ==
    IF Len(s) = 0 THEN (IF Len(cur) = 0 THEN <<>> ELSE <<cur>>)
    ELSE IF s[1] = SP
         THEN (IF Len(cur) = 0 THEN <<>> ELSE <<cur>>) \o SplitWs(Tail(s), <<>>)
         ELSE SplitWs(Tail(s), Append(cur, s[1]))

\* tokenize_line(line): collapse whitespace, strip, split
tokenize_line(line) == SplitWs(line, <<>>)

IsPrefix(p, s) == Len(p) <= Len(s) /\ SubSeq(s, 1, Len(p)) = p

RECURSIVE SplitStr(_, _, _)
\* s.split(sep) for a non-empty sep: leftmost matches, empty pieces kept
SplitStr(s, sep, cur) ==
    IF Len(s) = 0 THEN <<cur>>
    ELSE IF IsPrefix(sep, s)
         THEN <<cur>> \o SplitStr(SubSeq(s, Len(sep) + 1, Len(s)), sep, <<>>)
         ELSE SplitStr(Tail(s), sep, Append(cur, s[1]))

RECURSIVE RFind(_, _)
\* s.rfind(c) as a 0-based position, -1 when c does not occur
RFind(s, c) ==
    IF Len(s) = 0 THEN 0 - 1
    ELSE IF s[Len(s)] = c THEN Len(s) - 1
    ELSE RFind(SubSeq(s, 1, Len(s) - 1), c)

Reverse(s) == [i \in 1..Len(s) |-> s[Len(s) + 1 - i]]

\* ------------------------------------------------------------ Dictionary

bos == <<"<", "s", ">">>
pad == <<"<", "p", "a", "d", ">">>
eos == <<"<", "/", "s", ">">>
unk == <<"<", "u", "n", "k", ">">>

Empty == [symbols |-> <<>>, count |-> <<>>, indices |-> <<>>]

\* add_symbol with the new id taken after the append (an off-by-one)
add_symbol_off_by_one(d, word, n) ==
    IF word \in DOMAIN d.indices
    THEN LET idx == d.indices[word]
         IN  [d |-> [d EXCEPT !.count[idx + 1] = d.count[idx + 1] + n], idx |-> idx]
    ELSE LET idx == Len(d.symbols) + 1
         IN  [d |-> [symbols |-> Append(d.symbols, word),
                     count |-> Append(d.count, n),
                     indices |-> [w \in DOMAIN d.indices \cup {word} |->
                                     IF w = word THEN idx ELSE d.indices[w]]],
              idx |-> idx]

\* add_symbol without the lookup: every call appends
add_symbol_always_append(d, word, n) ==
    LET idx == Len(d.symbols)
    IN  [d |-> [symbols |-> Append(d.symbols, word),
                count |-> Append(d.count, n),
                indices |-> [w \in DOMAIN d.indices \cup {word} |->
                                IF w = word THEN idx ELSE d.indices[w]]],
         idx |-> idx]

\* add_symbol that overwrites the count of a known word
add_symbol_overwrite(d, word, n) ==
    IF word \in DOMAIN d.indices
    THEN LET idx == d.indices[word]
         IN  [d |-> [d EXCEPT !.count[idx + 1] = n], idx |-> idx]
    ELSE LET idx == Len(d.symbols)
         IN  [d |-> [symbols |-> Append(d.symbols, word),
                     count |-> Append(d.count, n),
                     indices |-> [w \in DOMAIN d.indices \cup {word} |->
                                     IF w = word THEN idx ELSE d.indices[w]]],
              idx |-> idx]

\* add_symbol(word, n) on dictionary d: the dictionary after, and the id returned
add_symbol(d, word, n) ==
    IF word \in DOMAIN d.indices
    THEN LET idx == d.indices[word]
         IN  [d |-> [d EXCEPT !.count[idx + 1] = d.count[idx + 1] + n], idx |-> idx]
    ELSE LET idx == Len(d.symbols)
         IN  [d |-> [symbols |-> Append(d.symbols, word),
                     count |-> Append(d.count, n),
                     indices |-> [w \in DOMAIN d.indices \cup {word} |->
                                     IF w = word THEN idx ELSE d.indices[w]]],
              idx |-> idx]

\* Dictionary(): the four specials registered in the order bos, pad, eos, unk
Dictionary ==
    LET r1 == add_symbol(Empty, bos, 1)
        r2 == add_symbol(r1.d, pad, 1)
        r3 == add_symbol(r2.d, eos, 1)
        r4 == add_symbol(r3.d, unk, 1)
    IN  [d |-> r4.d, bos_index |-> r1.idx, pad_index |-> r2.idx,
         eos_index |-> r3.idx, unk_index |-> r4.idx, nspecial |-> Len(r4.d.symbols)]

bos_index == Dictionary.bos_index
eos_index == Dictionary.eos_index
unk_index == Dictionary.unk_index
nspecial == Dictionary.nspecial

\* a call that returned v; a call that raised e
Ok(v) == [exc |-> "", val |-> v]
Raised(e) == [exc |-> e, val |-> <<>>]

\* d[idx]: Python indexing, a negative idx counts from the end
getitem(d, idx) ==
    IF idx < Len(d.symbols)
    THEN IF idx >= 0 THEN Ok(d.symbols[idx + 1])
         ELSE IF Len(d.symbols) + idx >= 0
              THEN Ok(d.symbols[Len(d.symbols) + idx + 1])
              ELSE Raised("IndexError")
    ELSE Ok(unk)

\* d.index(sym)
index(d, sym) == IF sym \in DOMAIN d.indices THEN d.indices[sym] ELSE unk_index

RECURSIVE Find(_, _, _)
\* s.find(c) as a 0-based position from position at, -1 when c does not occur
Find(s, c, at) ==
    IF at > Len(s) THEN 0 - 1
    ELSE IF s[at] = c THEN at - 1
    ELSE Find(s, c, at + 1)

\* parse_line splitting at the first space (find for rfind)
parse_line_find(line) ==
    LET idx == Find(line, SP, 1)
    IN  IF idx = 0 - 1
        THEN [exc |-> "ValueError(format)", word |-> <<>>, count |-> 0]
        ELSE IF ~IsInt(SubSeq(line, idx + 2, Len(line)))
        THEN [exc |-> "ValueError(int)", word |-> <<>>, count |-> 0]
        ELSE [exc |-> "", word |-> SubSeq(line, 1, idx),
              count |-> IntVal(SubSeq(line, idx + 2, Len(line)))]

\* one line of add_from_file: the symbol before the last space and the
\* count after it, or what is raised
parse_line(line) ==
    LET idx == RFind(line, SP)
    IN  IF idx = 0 - 1
        THEN [exc |-> "ValueError(format)", word |-> <<>>, count |-> 0]
        ELSE IF ~IsInt(SubSeq(line, idx + 2, Len(line)))
        THEN [exc |-> "ValueError(int)", word |-> <<>>, count |-> 0]
        ELSE [exc |-> "", word |-> SubSeq(line, 1, idx),
              count |-> IntVal(SubSeq(line, idx + 2, Len(line)))]

\* the body of add_from_file's loop: the entry appended without a lookup
append_entry(d, word, n) ==
    [symbols |-> Append(d.symbols, word),
     count |-> Append(d.count, n),
     indices |-> [w \in DOMAIN d.indices \cup {word} |->
                     IF w = word THEN Len(d.symbols) ELSE d.indices[w]]]

RECURSIVE add_from_file(_, _)
\* d.add_from_file(f) for the lines of f: the dictionary when it returns or
\* raises, what is raised, and the number of lines appended
add_from_file(d, lines) ==
    IF Len(lines) = 0 THEN [d |-> d, exc |-> "", at |-> 0]
    ELSE LET p == parse_line(lines[1])
         IN  IF p.exc # "" THEN [d |-> d, exc |-> p.exc, at |-> 0]
             ELSE LET r == add_from_file(append_entry(d, p.word, p.count), Tail(lines))
                  IN  [r EXCEPT !.at = r.at + 1]

\* load into a dictionary that was not seeded with the specials
load_unseeded(lines) == add_from_file(Empty, lines)

\* Dictionary.load(f)
load(lines) == add_from_file(Dictionary.d, lines)

RECURSIVE encode_words(_, _, _)
encode_words(d, words, add_if_not_exist) ==
    IF Len(words) = 0 THEN [d |-> d, ids |-> <<>>]
    ELSE LET r == IF add_if_not_exist THEN add_symbol(d, words[1], 1)
                  ELSE [d |-> d, idx |-> index(d, words[1])]
             rest == encode_words(r.d, Tail(words), add_if_not_exist)
         IN  [d |-> rest.d, ids |-> <<r.idx>> \o rest.ids]

\* d.encode_line(line, add_if_not_exist, append_eos, reverse_order)
encode_line(d, line, add_if_not_exist, append_eos, reverse_order) ==
    LET words0 == tokenize_line(line)
        words == IF reverse_order THEN Reverse(words0) ELSE words0
        r == encode_words(d, words, add_if_not_exist)
    IN  [d |-> r.d, ids |-> IF append_eos THEN Append(r.ids, eos_index) ELSE r.ids]

\* ------------------------------------------------------ RobertaTokenizer

cls_token == bos
sep_token == eos

RECURSIVE StrAll(_)
\* [str(token) for token in ms] for merge-space ids ms
StrAll(ms) == IF Len(ms) = 0 THEN <<>> ELSE <<Str(ms[1])>> \o StrAll(Tail(ms))

RECURSIVE bpe_extra_one_sep(_)
\* bpe_extra without the sep that opens an additional sentence
bpe_extra_one_sep(extra) ==
    IF Len(extra) = 0 THEN <<>>
    ELSE StrAll(extra[1]) \o <<sep_token>> \o bpe_extra_one_sep(Tail(extra))

RECURSIVE bpe_extra(_)
\* what encode appends to bpe_sentence for the additional sentences
bpe_extra(extra) ==
    IF Len(extra) = 0 THEN <<>>
    ELSE <<sep_token>> \o StrAll(extra[1]) \o <<sep_token>> \o bpe_extra(Tail(extra))

\* the rendered elements of bpe_sentence in encode(text, *args)
bpe_sentence(primary, extra) ==
    <<cls_token>> \o StrAll(primary) \o <<sep_token>> \o bpe_extra(extra)

\* encode(text, *args), a text being the merge-space ids GPT-2 yields for it
encode(d, primary, extra) ==
    encode_line(d, Join(bpe_sentence(primary, extra), <<SP>>), TRUE, FALSE, FALSE)

\* what _convert_id_to_token returns: the GPT-2 token of a merge-space id (the
\* GPT-2 vocabulary is external: the token is named by its id), or a symbol
GptToken(m) == [gpt2 |-> TRUE, id |-> m, symbol |-> <<>>]
Verbatim(symbol) == [gpt2 |-> FALSE, id |-> 0, symbol |-> symbol]

\* tokenizer._convert_id_to_token(idx)
convert_id_to_token(d, idx) ==
    LET symbol == getitem(d, idx)
    IN  IF symbol.exc # "" THEN symbol
        ELSE IF IsInt(symbol.val) THEN Ok(GptToken(IntVal(symbol.val)))
        ELSE Ok(Verbatim(symbol.val))

\* ids[1:-1]
Inner(ids) == IF Len(ids) <= 2 THEN <<>> ELSE SubSeq(ids, 2, Len(ids) - 1)

\* the separator convert_ids_to_tokens splits on: ' 2 2 '
SplitOn == <<SP, "2", SP, "2", SP>>

RECURSIVE IntAll(_)
\* list(map(int, pieces)): the first piece int() rejects raises
IntAll(pieces) ==
    IF Len(pieces) = 0 THEN Ok(<<>>)
    ELSE IF ~IsInt(pieces[1]) THEN Raised("ValueError")
    ELSE LET rest == IntAll(Tail(pieces))
         IN  IF rest.exc # "" THEN rest ELSE Ok(<<IntVal(pieces[1])>> \o rest.val)

RECURSIVE ParseExamples(_)
\* [list(map(int, example.split(' '))) for example in examples]
ParseExamples(examples) ==
    IF Len(examples) = 0 THEN Ok(<<>>)
    ELSE LET first == IntAll(SplitStr(examples[1], <<SP>>, <<>>))
         IN  IF first.exc # "" THEN first
             ELSE LET rest == ParseExamples(Tail(examples))
                  IN  IF rest.exc # "" THEN rest ELSE Ok(<<first.val>> \o rest.val)

RECURSIVE MergeIds(_, _)
\* list(map(lambda id: int(self.dictionary[id]), example))
MergeIds(d, example) ==
    IF Len(example) = 0 THEN Ok(<<>>)
    ELSE LET symbol == getitem(d, example[1])
         IN  IF symbol.exc # "" THEN symbol
             ELSE IF ~IsInt(symbol.val) THEN Raised("ValueError")
             ELSE LET rest == MergeIds(d, Tail(example))
                  IN  IF rest.exc # "" THEN rest
                      ELSE Ok(<<IntVal(symbol.val)>> \o rest.val)

RECURSIVE MergeIdsAll(_, _)
MergeIdsAll(d, examples) ==
    IF Len(examples) = 0 THEN Ok(<<>>)
    ELSE LET first == MergeIds(d, examples[1])
         IN  IF first.exc # "" THEN first
             ELSE LET rest == MergeIdsAll(d, Tail(examples))
                  IN  IF rest.exc # "" THEN rest ELSE Ok(<<first.val>> \o rest.val)

\* tokenizer.convert_ids_to_tokens(ids): the GPT-2 tokens, named by their
\* merge-space ids, of the one example (nested FALSE) or of each example
convert_ids_to_tokens(d, ids) ==
    LET examples == SplitStr(Join(StrAll(Inner(ids)), <<SP>>), SplitOn, <<>>)
        parsed == ParseExamples(examples)
    IN  IF parsed.exc # "" THEN parsed
        ELSE LET tokens == MergeIdsAll(d, parsed.val)
             IN  IF tokens.exc # "" THEN tokens
                 ELSE Ok([nested |-> Len(parsed.val) # 1, tokens |-> tokens.val])

\* convert_tokens_to_string(tokens) of the GPT-2 tokenizer, then
\* clean_up_tokenization where it is applied: both external, kept as terms
Text(tokens, cleaned) == [tokens |-> tokens, cleaned |-> cleaned]

\* tokenizer.decode(token_ids, skip_special_tokens, clean_up_tokenization_spaces):
\* a list of texts (list TRUE) or the one text
decode(d, token_ids, skip_special_tokens, clean_up_tokenization_spaces) ==
    LET filtered_tokens == convert_ids_to_tokens(d, token_ids)
    IN  IF filtered_tokens.exc # "" THEN filtered_tokens
        ELSE LET elements == filtered_tokens.val.tokens
             IN  IF filtered_tokens.val.nested
                 THEN Ok([list |-> TRUE,
                          texts |-> IF clean_up_tokenization_spaces
                                    THEN [i \in 1..Len(elements) |-> Text(elements[i], TRUE)]
                                    ELSE <<>>])
                 ELSE Ok([list |-> FALSE,
                          texts |-> <<Text(elements[1], clean_up_tokenization_spaces)>>])

\* ------------------------------------------------------------ the inputs

Str5 == <<"5">>
Str12 == <<"1", "2">>

\* words handed to add_symbol
Words == {eos, Str5, Str12}

Increments == {1, 2}

\* lines of a dictionary file: well formed, a special, a symbol holding a
\* space, no space at all, a count that is no integer
FileLines ==
    { Str5 \o <<SP, "1">>, eos \o <<SP, "2">>, <<"a", SP>> \o Str12 \o <<SP, "2">>,
      <<"x">>, Str5 \o <<SP, "x">> }

RECURSIVE SeqsUpTo(_, _)
\* the sequences over S of length at most n
SeqsUpTo(S, n) ==
    IF n = 0 THEN {<<>>}
    ELSE LET shorter == SeqsUpTo(S, n - 1)
         IN  shorter \cup {Append(q, x) : q \in {t \in shorter : Len(t) = n - 1}, x \in S}

Files == SeqsUpTo(FileLines, MaxLines)

\* lines handed to encode_line
Lines == { <<SP>> \o Str5 \o <<SP, SP>> \o eos \o <<SP>> }

\* <<add_if_not_exist, append_eos, reverse_order>> handed to encode_line: the
\* defaults, what encode passes, a lookup without growth, a reversed line
LineOptions ==
    { <<TRUE, TRUE, FALSE>>, <<TRUE, FALSE, FALSE>>, <<FALSE, TRUE, FALSE>>,
      <<TRUE, TRUE, TRUE>> }

\* texts handed to encode, by their merge-space ids
Texts == {<<>>, <<12, 5>>}

Extras == SeqsUpTo(Texts, MaxExtra)

\* ids handed to symbol_at and id_to_token
LookupIds == (0 - MaxSymbols - 1)..(MaxSymbols + 1)

\* id sequences handed to decode: sep, the first two ids after the specials
DecodeIds == SeqsUpTo({2, 4, 5}, MaxIds)

\* ------------------------------------------------------------- the state

Self == [symbols |-> symbols, count |-> count, indices |-> indices]

Within(d) ==
    /\ Len(d.symbols) <= MaxSymbols
    /\ \A i \in 1..Len(d.count) :
           d.count[i] <= (IF i <= nspecial THEN MaxMarkerCount ELSE MaxCount)

Pending == [exc |-> "pending", val |-> <<>>]

\* the symbol and the count text of a dictionary line that holds a space
LineWord(line) == SubSeq(line, 1, RFind(line, SP))
LineCount(line) == SubSeq(line, RFind(line, SP) + 2, Len(line))

\* sums after add_symbol(w, n)
Summed(s, w, n) ==
    [x \in DOMAIN s \cup {w} |->
        (IF x \in DOMAIN s THEN s[x] ELSE 0) + (IF x = w THEN n ELSE 0)]

RECURSIVE SummedAll(_, _)
SummedAll(s, words) ==
    IF Len(words) = 0 THEN s ELSE SummedAll(Summed(s, words[1], 1), Tail(words))

SetDict(d) ==
    /\ symbols' = d.symbols
    /\ count' = d.count
    /\ indices' = d.indices

\* what the constructor's add_symbol calls returned
Seeded == {<<Dictionary.d.symbols[i], i - 1>> : i \in 1..nspecial}

\* d = Dictionary()
Init ==
    /\ symbols = Dictionary.d.symbols
    /\ count = Dictionary.d.count
    /\ indices = Dictionary.d.indices
    /\ call = "Dictionary"
    /\ args = <<>>
    /\ ret = Ok(<<>>)
    /\ assigned = Seeded
    /\ stale = {}
    /\ sums = [w \in DOMAIN Dictionary.d.indices |-> 1]

\* tokenizer = RobertaTokenizer(vocab_file) for a file Dictionary.load accepts
InitTokenizer ==
    \E f \in Files :
        LET r == load(f)
        IN  /\ r.exc = ""
            /\ symbols = r.d.symbols
            /\ count = r.d.count
            /\ indices = r.d.indices
            /\ assigned = Seeded
            /\ stale = {p \in Seeded : \E i \in 1..Len(f) : LineWord(f[i]) = p[1]}
            /\ sums = [w \in DOMAIN Dictionary.d.indices |-> 1]

\* d.add_symbol(word, n)
AddSymbol ==
    \E word \in Words, n \in Increments :
        LET r == add_symbol(Self, word, n)
        IN  /\ Within(r.d)
            /\ SetDict(r.d)
            /\ call' = "add_symbol"
            /\ args' = [word |-> word, n |-> n]
            /\ ret' = Ok(r.idx)
            /\ assigned' = assigned \cup {<<word, r.idx>>}
            /\ sums' = Summed(sums, word, n)
            /\ UNCHANGED stale

\* d.add_from_file(f)
AddFromFile ==
    \E f \in Files :
        LET r == add_from_file(Self, f)
        IN  /\ Within(r.d)
            /\ SetDict(r.d)
            /\ call' = "add_from_file"
            /\ args' = [f |-> f]
            /\ ret' = [exc |-> r.exc, val |-> r.at]
            /\ stale' = stale \cup
                   {p \in assigned : \E i \in 1..r.at : LineWord(f[i]) = p[1]}
            /\ UNCHANGED <<assigned, sums>>

\* d = Dictionary.load(f)
Load ==
    \E f \in Files :
        LET r == load(f)
        IN  /\ Within(r.d)
            /\ SetDict(r.d)
            /\ call' = "load"
            /\ args' = [f |-> f]
            /\ ret' = [exc |-> r.exc, val |-> r.at]
            /\ assigned' = Seeded
            /\ stale' = {p \in Seeded : \E i \in 1..r.at : LineWord(f[i]) = p[1]}
            /\ sums' = [w \in DOMAIN Dictionary.d.indices |-> 1]

\* the dictionary and what add_symbol returned, after an encode_line that
\* returned r for the words
Encoded(r, words, add_if_not_exist) ==
    /\ SetDict(r.d)
    /\ assigned' = IF add_if_not_exist
                   THEN assigned \cup {<<words[i], r.ids[i]>> : i \in 1..Len(words)}
                   ELSE assigned
    /\ sums' = IF add_if_not_exist THEN SummedAll(sums, words) ELSE sums
    /\ UNCHANGED stale

\* d.encode_line(line, add_if_not_exist=, append_eos=, reverse_order=)
EncodeLine ==
    \E line \in Lines, opt \in LineOptions :
        LET add_if_not_exist == opt[1]
            append_eos == opt[2]
            reverse_order == opt[3]
            words == tokenize_line(line)
            r == encode_line(Self, line, add_if_not_exist, append_eos, reverse_order)
        IN  /\ Within(r.d)
            /\ Encoded(r, IF reverse_order THEN Reverse(words) ELSE words,
                       add_if_not_exist)
            /\ call' = "encode_line"
            /\ args' = [line |-> line, add_if_not_exist |-> add_if_not_exist,
                        append_eos |-> append_eos, reverse_order |-> reverse_order]
            /\ ret' = Ok(r.ids)

\* tokenizer.encode(text, *args)
Encode ==
    \E primary \in Texts, extra \in Extras :
        LET r == encode(Self, primary, extra)
        IN  /\ Within(r.d)
            /\ Encoded(r, bpe_sentence(primary, extra), TRUE)
            /\ call' = "encode"
            /\ args' = [primary |-> primary, extra |-> extra]
            /\ ret' = Ok(r.ids)

\* tokenizer.decode(tokenizer.encode(text, *args), skip_special_tokens=,
\* clean_up_tokenization_spaces=): the decode of what encode just returned
DecodeEncoded ==
    \E skip \in BOOLEAN, clean \in BOOLEAN :
        /\ call = "encode"
        /\ call' = "decode(encode)"
        /\ args' = [primary |-> args.primary, extra |-> args.extra, ids |-> ret.val,
                    skip_special_tokens |-> skip, clean_up_tokenization_spaces |-> clean]
        /\ ret' = decode(Self, ret.val, skip, clean)
        /\ UNCHANGED <<symbols, count, indices, assigned, stale, sums>>

\* a call of one of the lookups, about to be made
InitCall(name, inputs) ==
    /\ call = name
    /\ args \in inputs
    /\ ret = Pending

\* d[idx]
SymbolAt ==
    /\ call = "symbol_at"
    /\ ret = Pending
    /\ ret' = getitem(Self, args.idx)
    /\ UNCHANGED <<symbols, count, indices, call, args, assigned, stale, sums>>

\* tokenizer._convert_id_to_token(idx)
IdToToken ==
    /\ call = "id_to_token"
    /\ ret = Pending
    /\ ret' = convert_id_to_token(Self, args.idx)
    /\ UNCHANGED <<symbols, count, indices, call, args, assigned, stale, sums>>

\* tokenizer.decode(token_ids, skip_special_tokens=, clean_up_tokenization_spaces=)
Decode ==
    /\ call = "decode"
    /\ ret = Pending
    /\ ret' = decode(Self, args.ids, args.skip_special_tokens,
                     args.clean_up_tokenization_spaces)
    /\ UNCHANGED <<symbols, count, indices, call, args, assigned, stale, sums>>

\* ---------------------------------------------------- the specifications

\* one Dictionary under any sequence of its growing operations
Next == AddSymbol \/ AddFromFile \/ EncodeLine \/ Encode

Spec == Init /\ [][Next]_vars

\* a Dictionary under add_symbol alone
NextAdd == AddSymbol

SpecAdd == Init /\ [][NextAdd]_vars

\* Dictionary.load and add_from_file
NextLoad == Load \/ AddFromFile

SpecLoad == Init /\ [][NextLoad]_vars

\* the lookups, on the dictionary of a tokenizer
InitLookup ==
    /\ InitTokenizer
    /\ \/ InitCall("symbol_at", [idx : LookupIds])
       \/ InitCall("id_to_token", [idx : LookupIds])

NextLookup == SymbolAt \/ IdToToken

SpecLookup == InitLookup /\ [][NextLookup]_vars

\* decode, on the dictionary of a tokenizer
InitDecode ==
    /\ InitTokenizer
    /\ InitCall("decode", [ids : DecodeIds, skip_special_tokens : BOOLEAN,
                           clean_up_tokenization_spaces : BOOLEAN])

NextDecode == Decode

SpecDecode == InitDecode /\ [][NextDecode]_vars

\* a tokenizer that encodes, and decodes what it encoded
InitTok ==
    /\ InitTokenizer
    /\ call = "RobertaTokenizer"
    /\ args = <<>>
    /\ ret = Ok(<<>>)

NextTok == Encode \/ DecodeEncoded

SpecTok == InitTok /\ [][NextTok]_vars

\* ------------------------------------------------------------ the claims

\* the strings index_of knows
Known == DOMAIN indices

\* C1 as stated: symbols[index_of[s]] == s for every registered s, and
\* len(symbols) == len(counts) == len(index_of), in every reachable state.
C1_Original ==
    /\ \A s \in Known : indices[s] \in 0..(Len(symbols) - 1) /\ symbols[indices[s] + 1] = s
    /\ Len(symbols) = Len(count)
    /\ Len(count) = Cardinality(Known)

\* C1 amended: symbols[index_of[s]] == s for every registered s and
\* len(symbols) == len(counts); index_of holds one key per distinct string of
\* symbols, so len(index_of) <= len(symbols), with equality exactly while no
\* string occurs twice in symbols.
C1_Aligned ==
    /\ \A s \in Known : indices[s] \in 0..(Len(symbols) - 1) /\ symbols[indices[s] + 1] = s
    /\ Len(symbols) = Len(count)
    /\ Known = {symbols[i] : i \in 1..Len(symbols)}
    /\ Cardinality(Known) <= Len(symbols)
    /\ (Cardinality(Known) = Len(symbols)) <=>
           (\A i, j \in 1..Len(symbols) : symbols[i] = symbols[j] => i = j)

\* add_from_file has appended a line whose symbol was registered already
C1_Witness ==
    /\ call = "add_from_file"
    /\ ret.val >= 1
    /\ Cardinality(Known) < Len(symbols)

\* C2 as stated: once add_symbol(s) returned k, index_of(s) is k and
\* symbol_at(k) is s after every later add_symbol, load, encode_line, encode.
C2_Original ==
    \A p \in assigned : index(Self, p[1]) = p[2] /\ getitem(Self, p[2]) = Ok(p[1])

\* C2 amended: once add_symbol(s) returned k, symbol_at(k) is s ever after, and
\* index_of(s) is k unless a later load read a line whose symbol is s; from then
\* on index_of(s) is a larger id, at which symbol_at returns s too.
C2_Stable ==
    \A p \in assigned :
        /\ getitem(Self, p[2]) = Ok(p[1])
        /\ p \notin stale => index(Self, p[1]) = p[2]
        /\ p \in stale => /\ index(Self, p[1]) > p[2]
                          /\ getitem(Self, index(Self, p[1])) = Ok(p[1])

\* a load has re-registered one symbol while an id add_symbol gave to a word
\* that is no special still stands
C2_Witness ==
    /\ call = "add_from_file"
    /\ stale # {}
    /\ \E p \in assigned \ stale : p[2] >= nspecial

\* every line holds a space and an integer after its last space
WellFormed(f) ==
    \A i \in 1..Len(f) : RFind(f[i], SP) # 0 - 1 /\ IsInt(LineCount(f[i]))

\* C3 as stated: load of a well-formed source of N lines returns a dictionary
\* of exactly N entries, the symbol of line i (from 0) at id i.
C3_Original ==
    (call = "load" /\ WellFormed(args.f)) =>
        /\ ret.exc = ""
        /\ Len(symbols) = Len(args.f)
        /\ \A i \in 1..Len(args.f) : getitem(Self, i - 1) = Ok(LineWord(args.f[i]))

\* C3 amended: load of a well-formed source of N lines returns a dictionary of
\* nspecial + N entries: bos, pad, eos, unk at ids 0..3, then the symbol of
\* line i (from 0) at id nspecial + i with the count of its line.
C3_LoadAfterSpecials ==
    (call = "load" /\ WellFormed(args.f)) =>
        /\ ret.exc = ""
        /\ Len(symbols) = nspecial + Len(args.f)
        /\ Len(count) = Len(symbols)
        /\ SubSeq(symbols, 1, nspecial) = <<bos, pad, eos, unk>>
        /\ \A i \in 1..Len(args.f) :
               /\ getitem(Self, nspecial + i - 1) = Ok(LineWord(args.f[i]))
               /\ count[nspecial + i] = IntVal(LineCount(args.f[i]))

\* load has read a well-formed file of two lines with different symbols, one
\* of them holding a space
C3_Witness ==
    /\ call = "load"
    /\ WellFormed(args.f)
    /\ Len(args.f) = 2
    /\ LineWord(args.f[1]) # LineWord(args.f[2])
    /\ \E i \in 1..2 : RFind(LineWord(args.f[i]), SP) # 0 - 1

RECURSIVE SplitIds(_, _, _)
\* ids split at each two consecutive sep ids, leftmost first
SplitIds(ids, sep, cur) ==
    IF Len(ids) = 0 THEN <<cur>>
    ELSE IF Len(ids) >= 2 /\ ids[1] = sep /\ ids[2] = sep
         THEN <<cur>> \o SplitIds(SubSeq(ids, 3, Len(ids)), sep, <<>>)
         ELSE SplitIds(Tail(ids), sep, Append(cur, ids[1]))

\* C4: for every id sequence and every combination of skip_special and
\* clean_spacing, decode drops the first and last id and returns one text when
\* the rest holds one segment, and exactly k texts, in order, when splitting
\* the rest on two consecutive sep ids gives k >= 2 segments. Stated for the
\* calls that return, on a dictionary whose sep marker holds its default id.
C4_DecodeShape ==
    (call = "decode" /\ ret.exc = "" /\ index(Self, sep_token) = eos_index) =>
        LET k == Len(SplitIds(Inner(args.ids), index(Self, sep_token), <<>>))
        IN  /\ k = 1 => ~ret.val.list /\ Len(ret.val.texts) = 1
            /\ k >= 2 => ret.val.list /\ Len(ret.val.texts) = k

\* C5: decode(encode(primary, additional...)) with the default flags, on a
\* dictionary whose specials hold their default ids, does not fail and
\* recovers the N + 1 merge-space id sequences encode started from.
C5_RoundTrip ==
    (/\ call = "decode(encode)"
     /\ args.clean_up_tokenization_spaces
     /\ ~args.skip_special_tokens
     /\ \A p \in Seeded : index(Self, p[1]) = p[2]) =>
        LET texts == <<args.primary>> \o args.extra
        IN  /\ ret.exc = ""
            /\ Len(ret.val.texts) = Len(texts)
            /\ \A i \in 1..Len(texts) : ret.val.texts[i].tokens = texts[i]

\* C6: symbol_at(id) returns symbols[id] when 0 <= id < len(symbols) and the
\* unk literal for every other integer, and never raises.
C6_SymbolAtTotal ==
    (call = "symbol_at" /\ ret # Pending) =>
        ret = Ok(IF 0 <= args.idx /\ args.idx < Len(symbols)
                 THEN symbols[args.idx + 1] ELSE unk)

\* the dictionary ids of the decimal strings of merge-space ids ms
D(ms) == [i \in 1..Len(ms) |-> index(Self, Str(ms[i]))]

RECURSIVE WrappedAll(_)
\* [sep] ++ D(text) ++ [sep] for each additional text in order
WrappedAll(extra) ==
    IF Len(extra) = 0 THEN <<>>
    ELSE <<index(Self, sep_token)>> \o D(extra[1]) \o <<index(Self, sep_token)>>
             \o WrappedAll(Tail(extra))

\* C7: encode returns [index_of(cls)] ++ D(primary) ++ [index_of(sep)] and then
\* [index_of(sep)] ++ D(text) ++ [index_of(sep)] for each additional text, with
\* index_of taken after the call; so it begins with the cls id and ends with
\* the sep id.
C7_EncodeShape ==
    call = "encode" =>
        /\ ret = Ok(<<index(Self, cls_token)>> \o D(args.primary)
                        \o <<index(Self, sep_token)>> \o WrappedAll(args.extra))
        /\ ret.val[1] = index(Self, cls_token)
        /\ ret.val[Len(ret.val)] = index(Self, sep_token)

\* encode has returned for a primary text and two additional texts, the first
\* of them not empty
C7_Witness ==
    /\ call = "encode"
    /\ Len(args.primary) > 0
    /\ Len(args.extra) = 2
    /\ Len(args.extra[1]) > 0

\* C8: every add_symbol(w, n) returns the same id for w, only the first call
\* for w adds an entry (one), and counts[that id] is the sum of the increments
\* of all add_symbol calls made with w.
C8_AddSymbolCumulative ==
    /\ \A w \in DOMAIN sums : w \in Known /\ count[indices[w] + 1] = sums[w]
    /\ Len(symbols) = Cardinality(DOMAIN sums)
    /\ \A p, q \in assigned : p[1] = q[1] => p[2] = q[2]
    /\ call = "add_symbol" => <<args.word, ret.val>> \in assigned

\* add_symbol has returned for a word, no special, that it was called with before
C8_Witness ==
    /\ call = "add_symbol"
    /\ args.word = Str5
    /\ sums[args.word] > args.n

\* C9: id_to_token(id) never fails: a symbol_at(id) that is no integer is
\* returned unchanged, one that parses as the integer m gives the GPT-2 token
\* of merge-space id m.
C9_IdToTokenTotal ==
    (call = "id_to_token" /\ ret # Pending) =>
        /\ ret.exc = ""
        /\ LET symbol == getitem(Self, args.idx).val
           IN  ret.val = IF IsInt(symbol) THEN GptToken(IntVal(symbol))
                         ELSE Verbatim(symbol)

\* the number of lines before the first line of f that holds no space
BeforeNoSpace(f) ==
    (CHOOSE k \in 1..Len(f) :
        RFind(f[k], SP) = 0 - 1 /\ \A j \in 1..(k - 1) : RFind(f[j], SP) # 0 - 1) - 1

HasNoSpace(f) == \E k \in 1..Len(f) : RFind(f[k], SP) = 0 - 1

\* what the call about to return started from, and what it leaves when the
\* first k lines of f were appended
Started == IF call' = "load" THEN Dictionary.d ELSE Self

LeftAfter(f, k) ==
    /\ symbols' = Started.symbols \o [i \in 1..k |-> LineWord(f[i])]
    /\ count' = Started.count \o [i \in 1..k |-> IntVal(LineCount(f[i]))]
    /\ DOMAIN indices' = DOMAIN Started.indices \cup {LineWord(f[i]) : i \in 1..k}

\* C10 as stated: a load whose first line without a space is line k fails with
\* the format error, leaving the previous entries followed by the k lines
\* before it, in file order with their counts, and nothing of line k or later.
C10_Original ==
    [][(call' \in {"load", "add_from_file"} /\ HasNoSpace(args'.f)) =>
           /\ ret'.exc = "ValueError(format)"
           /\ LeftAfter(args'.f, BeforeNoSpace(args'.f))]_vars

\* C10 amended: the same, for a source whose k lines before its first line
\* without a space each hold an integer after their last space.
C10_PartialLoad ==
    [][(/\ call' \in {"load", "add_from_file"}
        /\ HasNoSpace(args'.f)
        /\ WellFormed(SubSeq(args'.f, 1, BeforeNoSpace(args'.f)))) =>
           /\ ret'.exc = "ValueError(format)"
           /\ ret'.val = BeforeNoSpace(args'.f)
           /\ LeftAfter(args'.f, BeforeNoSpace(args'.f))]_vars

\* add_from_file has failed on a line without a space after appending a line
C10_Witness ==
    /\ call = "add_from_file"
    /\ ret.exc = "ValueError(format)"
    /\ ret.val >= 1

====
